---- MODULE Spec2Model ----
(***************************************************************************)
(* BRFSS Type 2 Diabetes Analyzer.                                         *)
(*                                                                         *)
(* Part 1 (specification Spec): the React front end of                     *)
(* src/frontend/src/App.tsx: the App component's state, the user's edits   *)
(* of the inputs, and the three async task handlers runRecode, runPrev     *)
(* and runLogit, cut into steps at their awaits.                           *)
(*                                                                         *)
(* Part 2 (specification SpecBackend): the statistical pipeline behind    *)
(* the endpoints of src/backend/README.md (Recoder, Weighted Aggregator,   *)
(* Orchestrator).  Its code is not among the sources; it is modelled from  *)
(* the design document.                                                    *)
(***************************************************************************)
EXTENDS Integers, Sequences, FiniteSets, TLC

VARIABLES
    \* ---- App.tsx, useState hooks (lines 9-16)
    file,        \* File | null
    by,          \* string
    covars,      \* string
    weightCol,   \* string, initially '_LLCPWT'
    prevRows,    \* PrevRow[] | null, or whatever res.json() produced
    orRows,      \* ORRow[] | null
    plotUrl,     \* string ('' = no plot)
    busy,        \* boolean: the value last given to setBusy
    \* ---- the environment of the component
    runs,        \* handler invocations suspended at an await
    nRuns,       \* number of handler invocations so far
    alertMsg,    \* the last window.alert of runRecode
    crashed,     \* the render threw and React unmounted the tree
    last,        \* how the most recently settled handler invocation ended
    weightEdited,\* the user has typed into the weight-column input
    \* ---- the pipeline of one backend request
    bpc,         \* position of the request in the pipeline
    breq,        \* the request: operation and parameters
    bdata,       \* the dataset of the request (raw, then recoded)
    bcols,       \* the column names of bdata
    bsteps,      \* the pipeline steps executed so far, in order
    bresult      \* the response

uiVars == <<file, by, covars, weightCol, prevRows, orRows, plotUrl, busy,
            runs, nRuns, alertMsg, crashed, last, weightEdited>>
beVars == <<bpc, breq, bdata, bcols, bsteps, bresult>>
vars == <<uiVars, beVars>>

(***************************************************************************)
(* Bounds and input domains                                                *)
(***************************************************************************)
MaxRuns == 2

Null == "null"
Files == {"a.csv", "b.csv"}
ByVals == {"", "sex"}
CovarVals == {"", "C(sex)"}
DefaultWeightCol == "_LLCPWT"
WeightVals == {DefaultWeightCol, "", "WT2"}

\* what a fetch followed by res.json() can produce
JsonOutcomes == {"rejected", "unparsable", "errorbody", "table"}
\* what a fetch followed by res.blob() can produce
BlobOutcomes == {"rejected", "errorbody", "png"}

NoRun == [task |-> "none", fail |-> "none", plotIssued |-> FALSE]

(***************************************************************************)
(* Part 1: the front end                                                   *)
(***************************************************************************)

\* const canRun = useMemo(() => !!file, [file])
canRun == file # Null

\* variant: the buttons ignore busy
DisabledIgnoringBusy == ~canRun
\* <button disabled={!canRun || busy} ...>
Disabled == ~canRun \/ busy

\* if (x) fd.append(name, x)
Field(name, x) == IF x # "" THEN name :> x ELSE <<>>

\* variant: the default column name is sent whatever the input holds
WeightFieldDefault(w) == "weight_col" :> DefaultWeightCol
\* if (weightCol) fd.append('weight_col', weightCol)
WeightField(w) == Field("weight_col", w)

\* the closure of a handler: the state of the render it was created in, as
\* far as the handler reads it
PrevClosure == [file |-> file, by |-> by, weightCol |-> weightCol]
LogitClosure == [file |-> file, covars |-> covars, weightCol |-> weightCol]
RecodeClosure == [file |-> file, weightCol |-> weightCol]

\* runPrev's first FormData
PrevForm(c) == ("file" :> c.file) @@ Field("by", c.by) @@ WeightField(c.weightCol)

\* variant: plotFD is built from the state current at the second request
PlotFormFromState(c) == ("file" :> file) @@ Field("by", by) @@ WeightField(weightCol)
\* runPrev's second FormData, plotFD
PlotForm(c) == ("file" :> c.file) @@ Field("by", c.by) @@ WeightField(c.weightCol)

\* runLogit's FormData
LogitForm(c) == ("file" :> c.file) @@ Field("covars_csv", c.covars) @@ WeightField(c.weightCol)

\* runRecode's FormData
RecodeForm(c) == ("file" :> c.file) @@ WeightField(c.weightCol)

Request(url, fd) == [url |-> url, fd |-> fd]

UIInit ==
    /\ file = Null
    /\ by = ""
    /\ covars = ""
    /\ weightCol = DefaultWeightCol
    /\ prevRows = [kind |-> Null, fd |-> <<>>]
    /\ orRows = [kind |-> Null]
    /\ plotUrl = [kind |-> "", fd |-> <<>>]
    /\ busy = FALSE
    /\ runs = {}
    /\ nRuns = 0
    /\ alertMsg = "none"
    /\ crashed = FALSE
    /\ last = NoRun
    /\ weightEdited = FALSE

\* ---- the inputs (lines 83-94); none of them is disabled while busy

\* <input type="file" onChange={(e) => setFile(e.target.files?.[0] || null)} />
SelectFile(f) ==
    /\ ~crashed
    /\ f # file
    /\ file' = f
    /\ UNCHANGED <<by, covars, weightCol, prevRows, orRows, plotUrl, busy, runs,
                   nRuns, alertMsg, crashed, last, weightEdited, beVars>>

EditBy(v) ==
    /\ ~crashed
    /\ v # by
    /\ by' = v
    /\ UNCHANGED <<file, covars, weightCol, prevRows, orRows, plotUrl, busy, runs,
                   nRuns, alertMsg, crashed, last, weightEdited, beVars>>

EditCovars(v) ==
    /\ ~crashed
    /\ v # covars
    /\ covars' = v
    /\ UNCHANGED <<file, by, weightCol, prevRows, orRows, plotUrl, busy, runs,
                   nRuns, alertMsg, crashed, last, weightEdited, beVars>>

EditWeightCol(v) ==
    /\ ~crashed
    /\ v # weightCol
    /\ weightCol' = v
    /\ weightEdited' = TRUE
    /\ UNCHANGED <<file, by, covars, prevRows, orRows, plotUrl, busy, runs,
                   nRuns, alertMsg, crashed, last, beVars>>

\* ---- the start of a handler: from the click to the first await.  React
\* re-renders after every input event, so the handler that is clicked closes
\* over the current state.

StartRun(task, url, cl, fd) ==
    /\ ~crashed
    /\ ~Disabled                     \* the button can be clicked
    /\ file # Null                   \* if (!file) return
    /\ nRuns < MaxRuns
    /\ nRuns' = nRuns + 1
    /\ busy' = TRUE                  \* setBusy(true)
    /\ runs' = runs \cup {[id |-> nRuns + 1, task |-> task, pc |-> url,
                           cl |-> cl, sent |-> <<Request(url, fd)>>,
                           fail |-> "none",
                           \* the inputs as they stand when the task starts
                           atStart |-> [file |-> file, weightCol |-> weightCol,
                                        edited |-> weightEdited]]}
    /\ UNCHANGED <<file, by, covars, weightCol, prevRows, orRows, plotUrl,
                   alertMsg, crashed, last, weightEdited, beVars>>

runPrev == StartRun("prev", "/prevalence", PrevClosure, PrevForm(PrevClosure))
runLogit == StartRun("logit", "/logit", LogitClosure, LogitForm(LogitClosure))
runRecode == StartRun("recode", "/recode", RecodeClosure, RecodeForm(RecodeClosure))

\* ---- the end of a handler

Ended(r, fail) == [task |-> r.task, fail |-> fail, plotIssued |-> Len(r.sent) > 1]

\* variant: setBusy(false) after the try block instead of in finally
ThrowOutKeepBusy(r, fail) ==
    /\ runs' = runs \ {r}
    /\ last' = Ended(r, fail)
    /\ UNCHANGED busy
\* an await throws inside try: finally { setBusy(false) }, and the promise of
\* the handler rejects with nobody to catch it
ThrowOut(r, fail) ==
    /\ runs' = runs \ {r}
    /\ last' = Ended(r, fail)
    /\ busy' = FALSE

\* the try block runs to its end: finally { setBusy(false) }
ReturnOut(r, fail) ==
    /\ runs' = runs \ {r}
    /\ last' = Ended(r, fail)
    /\ busy' = FALSE

\* ---- runPrev (lines 20-42)

\* const res = await fetch(.../prevalence); const data = await res.json()
\* setPrevRows(data); build plotFD; fetch(.../plot/prevalence)
PrevalenceSettles(r, out) ==
    /\ r \in runs /\ r.pc = "/prevalence"
    /\ \/ /\ out \in {"rejected", "unparsable"}
          /\ ThrowOut(r, out)
          /\ UNCHANGED <<prevRows, crashed>>
       \/ /\ out \in {"errorbody", "table"}
          \* setPrevRows(data): data is stored whatever its shape
          \* (the body answers the request the run sent: fd is its form data)
          /\ prevRows' = [kind |-> out, fd |-> r.sent[1].fd]
          \* prevRows.map is not a function when data is an error object
          /\ crashed' = (crashed \/ out = "errorbody")
          /\ runs' = (runs \ {r}) \cup
                {[r EXCEPT !.pc = "/plot/prevalence",
                           !.sent = Append(@, Request("/plot/prevalence", PlotForm(r.cl))),
                           !.fail = IF out = "errorbody" THEN out ELSE "none"]}
          /\ UNCHANGED <<busy, last>>
    /\ UNCHANGED <<file, by, covars, weightCol, orRows, plotUrl, nRuns,
                   alertMsg, weightEdited, beVars>>

\* const blob = await plotRes.blob(); setPlotUrl(URL.createObjectURL(blob))
PlotSettles(r, out) ==
    /\ r \in runs /\ r.pc = "/plot/prevalence"
    /\ \/ /\ out = "rejected"
          /\ ThrowOut(r, IF r.fail = "none" THEN "plot-rejected" ELSE r.fail)
          /\ UNCHANGED plotUrl
       \/ /\ out \in {"errorbody", "png"}
          \* the body becomes a blob URL whether or not it is an image
          /\ plotUrl' = [kind |-> out, fd |-> r.sent[2].fd]
          /\ ReturnOut(r, IF r.fail # "none" THEN r.fail
                          ELSE IF out = "errorbody" THEN "plot-errorbody" ELSE "none")
    /\ UNCHANGED <<file, by, covars, weightCol, prevRows, orRows, nRuns,
                   alertMsg, crashed, weightEdited, beVars>>

\* ---- runLogit (lines 44-58)

\* const data = await res.json(); setOrRows(data.table || null)
LogitSettles(r, out) ==
    /\ r \in runs /\ r.pc = "/logit"
    /\ \/ /\ out \in {"rejected", "unparsable"}
          /\ ThrowOut(r, out)
          /\ UNCHANGED orRows
       \/ /\ out = "errorbody"
          /\ orRows' = [kind |-> Null]
          /\ ReturnOut(r, out)
       \/ /\ out = "table"
          /\ orRows' = [kind |-> "table"]
          /\ ReturnOut(r, "none")
    /\ UNCHANGED <<file, by, covars, weightCol, prevRows, plotUrl, nRuns,
                   alertMsg, crashed, weightEdited, beVars>>

\* ---- runRecode (lines 60-74)

\* const data = await res.json(); alert(`... ${data.length} ...` + JSON.stringify(data[0]))
RecodeSettles(r, out) ==
    /\ r \in runs /\ r.pc = "/recode"
    /\ \/ /\ out \in {"rejected", "unparsable"}
          /\ ThrowOut(r, out)
          /\ UNCHANGED alertMsg
       \/ /\ out = "errorbody"
          \* data.length and data[0] of an error object are undefined
          /\ alertMsg' = "Preview rows: undefined"
          /\ ReturnOut(r, out)
       \/ /\ out = "table"
          /\ alertMsg' = "Preview rows: n"
          /\ ReturnOut(r, "none")
    /\ UNCHANGED <<file, by, covars, weightCol, prevRows, orRows, plotUrl, nRuns,
                   crashed, weightEdited, beVars>>

Next ==
    \/ \E f \in Files \cup {Null} : SelectFile(f)
    \/ \E v \in ByVals : EditBy(v)
    \/ \E v \in CovarVals : EditCovars(v)
    \/ \E v \in WeightVals : EditWeightCol(v)
    \/ runPrev
    \/ runLogit
    \/ runRecode
    \/ \E r \in runs, out \in JsonOutcomes : PrevalenceSettles(r, out)
    \/ \E r \in runs, out \in BlobOutcomes : PlotSettles(r, out)
    \/ \E r \in runs, out \in JsonOutcomes : LogitSettles(r, out)
    \/ \E r \in runs, out \in JsonOutcomes : RecodeSettles(r, out)

BackendIdle ==
    /\ bpc = "idle"
    /\ breq = <<>>
    /\ bdata = <<>>
    /\ bcols = {}
    /\ bsteps = <<>>
    /\ bresult = <<>>

Init == UIInit /\ BackendIdle
Spec == Init /\ [][Next]_vars

(***************************************************************************)
(* Part 2: the pipeline of one backend request                             *)
(* (Recoder, Weighted Aggregator, Pipeline Orchestrator)                   *)
(***************************************************************************)
MaxRows == 2

\* a cell of a dataset: a categorical code, a number or missing
Code(c) == [kind |-> "code", n |-> 0, s |-> c]
Num(k) == [kind |-> "num", n |-> k, s |-> ""]
Missing == [kind |-> "missing", n |-> 0, s |-> ""]

\* the raw columns of a survey extract
RawCols == {"DIABETE4", "SEXVAR", "_LLCPWT"}
\* raw codes: two mapped codes and one outside the mapping, per variable
OutcomeCodes == {Code("yes"), Code("no"), Code("refused")}
SexCodes == {Code("1"), Code("2"), Code("9")}
\* weight cells: numbers, a non-numeric text, an absent value
WeightCells == {Num(0), Num(1), Num(2), Code("N/A"), Missing}

RawRows == {("DIABETE4" :> d) @@ ("SEXVAR" :> x) @@ ("_LLCPWT" :> w) :
                d \in OutcomeCodes, x \in SexCodes, w \in WeightCells}

ExampleRow(d, w) ==
    ("DIABETE4" :> Code(d)) @@ ("SEXVAR" :> Code("1")) @@ ("_LLCPWT" :> Num(w))
\* the end-to-end scenario: outcomes [1,0,1,0], weights [2,1,1,2]
ExampleDataset == <<ExampleRow("yes", 2), ExampleRow("no", 1),
                    ExampleRow("yes", 1), ExampleRow("no", 2)>>

Datasets == UNION {[1..n -> RawRows] : n \in 0..MaxRows} \cup {ExampleDataset}

\* the requests: operation and parameters; "NOCOL" names a column no dataset has
BackendRequests ==
    {[op |-> "prevalence", by |-> b, weight_col |-> w, covars |-> <<>>] :
        b \in {"", "sex", "NOCOL"}, w \in {"_LLCPWT", "NOCOL"}}
    \cup {[op |-> "regression", by |-> "", weight_col |-> "_LLCPWT", covars |-> c] :
        c \in {<<"sex">>, <<"sex", "NOCOL">>}}
    \cup {[op |-> "recode", by |-> "", weight_col |-> "_LLCPWT", covars |-> <<>>]}

\* ---- Recoder

\* binary outcome: code -> {0, 1}, any other code -> missing
OutcomeBinary(code) ==
    CASE code = Code("yes") -> Num(1)
      [] code = Code("no") -> Num(0)
      [] OTHER -> Missing

\* sex: a 2-level mapping, any other code -> missing
SexCategory(code) ==
    CASE code = Code("1") -> Code("Male")
      [] code = Code("2") -> Code("Female")
      [] OTHER -> Missing

DerivedCols == {"t2d_binary", "sex"}

\* the derived columns are added to the row, the original ones preserved
RecodeRow(row) ==
    ("t2d_binary" :> OutcomeBinary(row["DIABETE4"]))
        @@ ("sex" :> SexCategory(row["SEXVAR"])) @@ row

RecodeDataset(rows) == [i \in 1..Len(rows) |-> RecodeRow(rows[i])]

\* ---- Weighted Aggregator

\* variant: a row without a numeric weight is left out
WeightOrZero(row, wcol) ==
    IF wcol \in DOMAIN row /\ row[wcol].kind = "num" THEN row[wcol].n ELSE 0
\* the weight of a row: an absent or non-numeric value falls back to 1
WeightOf(row, wcol) ==
    IF wcol \in DOMAIN row /\ row[wcol].kind = "num" THEN row[wcol].n ELSE 1

\* the group of a row: "overall" when ungrouped
GroupOf(row, byCol) ==
    IF byCol = "" THEN Code("overall")
    ELSE IF byCol \in DOMAIN row THEN row[byCol] ELSE Missing

IndexOfGroup(acc, g) ==
    IF \E i \in 1..Len(acc) : acc[i].group = g
    THEN CHOOSE i \in 1..Len(acc) : acc[i].group = g
    ELSE 0

\* one row into the accumulators: a row with a missing group goes nowhere; a
\* row with a missing outcome makes its group known and adds nothing
Accumulate(acc, row, byCol, wcol) ==
    LET g == GroupOf(row, byCol)
        y == row["t2d_binary"]
        w == WeightOf(row, wcol)
        acc1 == IF IndexOfGroup(acc, g) = 0
                THEN Append(acc, [group |-> g, num |-> 0, den |-> 0])
                ELSE acc
        k == IndexOfGroup(acc1, g)
    IN  IF g = Missing THEN acc
        ELSE IF y = Missing THEN acc1
        ELSE [acc1 EXCEPT ![k] = [group |-> g, num |-> @.num + w * y.n,
                                  den |-> @.den + w]]

RECURSIVE AccumulateAll(_, _, _, _)
AccumulateAll(acc, rows, byCol, wcol) ==
    IF rows = <<>> THEN acc
    ELSE AccumulateAll(Accumulate(acc, Head(rows), byCol, wcol), Tail(rows), byCol, wcol)

\* variant: every observed group is reported
KeepAllGroups(acc) == acc
\* a group with a zero weighted denominator is omitted
OmitZeroDenominator(acc) == SelectSeq(acc, LAMBDA a : a.den > 0)

\* the prevalence rows, in first-seen order; prev = num / den
Aggregate(rows, byCol, wcol) ==
    OmitZeroDenominator(AccumulateAll(<<>>, rows, byCol, wcol))

\* ---- Pipeline Orchestrator

RequestedCols(req) ==
    (IF req.by # "" THEN {req.by} ELSE {})
        \cup {req.covars[i] : i \in 1..Len(req.covars)}
        \cup {req.weight_col}

\* variant: no validation
NoMissingCols(req, cols) == {}
\* the requested columns the dataset does not have
MissingCols(req, cols) == RequestedCols(req) \ cols

BackendInit ==
    /\ UIInit
    /\ bpc = "received"
    /\ breq \in BackendRequests
    /\ bdata \in Datasets
    /\ bcols = RawCols
    /\ bsteps = <<>>
    /\ bresult = <<>>

\* always recode first
Recode ==
    /\ bpc = "received"
    /\ bdata' = RecodeDataset(bdata)
    /\ bcols' = bcols \cup DerivedCols
    /\ bsteps' = Append(bsteps, "recode")
    /\ bpc' = "recoded"
    /\ UNCHANGED <<breq, bresult, uiVars>>

\* then validate the requested column names against the recoded dataset
Validate ==
    /\ bpc = "recoded"
    /\ bsteps' = Append(bsteps, "validate")
    /\ IF MissingCols(breq, bcols) # {}
       THEN /\ bpc' = "failed"
            /\ bresult' = [error |-> "missing-column",
                           columns |-> MissingCols(breq, bcols)]
       ELSE /\ bpc' = "validated"
            /\ UNCHANGED bresult
    /\ UNCHANGED <<breq, bdata, bcols, uiVars>>

\* prevalence: the Aggregator; with no positive weight in the rows that count,
\* ungrouped aggregation is undefined and fails
RunAggregator ==
    /\ bpc = "validated" /\ breq.op = "prevalence"
    /\ bsteps' = Append(bsteps, "aggregate")
    /\ LET rows == Aggregate(bdata, breq.by, breq.weight_col) IN
       IF breq.by = "" /\ rows = <<>>
       THEN /\ bpc' = "failed"
            /\ bresult' = [error |-> "zero-weight", columns |-> {}]
       ELSE /\ bpc' = "done"
            /\ bresult' = rows
    /\ UNCHANGED <<breq, bdata, bcols, uiVars>>

\* regression: the Estimator (its numerics are not modelled)
RunEstimator ==
    /\ bpc = "validated" /\ breq.op = "regression"
    /\ bsteps' = Append(bsteps, "estimate")
    /\ bpc' = "done"
    /\ bresult' = <<"or-table">>
    /\ UNCHANGED <<breq, bdata, bcols, uiVars>>

\* recode: the recoded dataset is the output
ReturnRecoded ==
    /\ bpc = "validated" /\ breq.op = "recode"
    /\ bpc' = "done"
    /\ bresult' = bdata
    /\ UNCHANGED <<breq, bdata, bcols, bsteps, uiVars>>

BackendNext ==
    \/ Recode
    \/ Validate
    \/ RunAggregator
    \/ RunEstimator
    \/ ReturnRecoded

SpecBackend == BackendInit /\ [][BackendNext]_vars

(***************************************************************************)
(* Properties of the pipeline                                              *)
(***************************************************************************)

RECURSIVE SumSeq(_)
SumSeq(q) == IF q = <<>> THEN 0 ELSE Head(q) + SumSeq(Tail(q))

\* the rows that count for group g: outcome not missing, and group g (any row
\* when ungrouped)
Counts(row, g) ==
    /\ row["t2d_binary"] # Missing
    /\ breq.by = "" \/ row[breq.by] = g

\* the weight of a row as the data model states it
StatedWeight(row) ==
    LET c == row[breq.weight_col] IN IF c.kind = "num" THEN c.n ELSE 1

WeightedPositives(g) ==
    SumSeq([i \in 1..Len(bdata) |->
              IF Counts(bdata[i], g)
              THEN StatedWeight(bdata[i]) * bdata[i]["t2d_binary"].n ELSE 0])

WeightedTotal(g) ==
    SumSeq([i \in 1..Len(bdata) |->
              IF Counts(bdata[i], g) THEN StatedWeight(bdata[i]) ELSE 0])

PrevalenceDone == bpc = "done" /\ breq.op = "prevalence"

\* C3: the prevalence of a group (of the whole dataset when ungrouped) is the
\* sum of weight*outcome over the sum of weight, over exactly the rows whose
\* outcome is not missing, a row without a numeric weight counting with
\* weight 1; outcomes [1,0,1,0] with weights [2,1,1,2] give 3/6.
C3_PrevalenceFormula ==
    PrevalenceDone =>
        /\ \A k \in 1..Len(bresult) :
              /\ bresult[k].num = WeightedPositives(bresult[k].group)
              /\ bresult[k].den = WeightedTotal(bresult[k].group)
              /\ bresult[k].den > 0
        /\ (breq.by = "" /\ bdata = RecodeDataset(ExampleDataset)) =>
              (Len(bresult) = 1 /\ bresult[1].num = 3 /\ bresult[1].den = 6)

\* the end-to-end scenario has been aggregated, ungrouped: 3/6
C3_Witness ==
    /\ PrevalenceDone /\ breq.by = ""
    /\ bdata = RecodeDataset(ExampleDataset)
    /\ bresult = <<[group |-> Code("overall"), num |-> 3, den |-> 6]>>

\* the requested columns that the recoded dataset does not have
AbsentCols == RequestedCols(breq) \ (RawCols \cup DerivedCols)

ObservedGroups == {bdata[i][breq.by] : i \in 1..Len(bdata)} \ {Missing}
FirstSeen(g) ==
    CHOOSE i \in 1..Len(bdata) :
        /\ bdata[i][breq.by] = g
        /\ \A j \in 1..(i - 1) : bdata[j][breq.by] # g

\* C5: the grouped result has exactly one row per observed group value with a
\* positive weighted denominator, in first-seen order; a group with a zero
\* denominator is omitted, a row with a missing group value is in no group.
C5_GroupRows ==
    (PrevalenceDone /\ breq.by # "") =>
        /\ {bresult[k].group : k \in 1..Len(bresult)}
              = {g \in ObservedGroups : WeightedTotal(g) > 0}
        /\ \A k, l \in 1..Len(bresult) :
              k < l => FirstSeen(bresult[k].group) < FirstSeen(bresult[l].group)
        /\ \A k \in 1..Len(bresult) : bresult[k].den # 0

\* two groups are observed, Female first; Male has a zero denominator and only
\* Female is reported
C5_Witness ==
    /\ PrevalenceDone /\ breq.by = "sex"
    /\ ObservedGroups = {Code("Male"), Code("Female")}
    /\ Len(bresult) = 1 /\ bresult[1].group = Code("Female")

(***************************************************************************)
(* Properties of the front end                                             *)
(***************************************************************************)

TypeOK ==
    /\ file \in Files \cup {Null}
    /\ by \in ByVals /\ covars \in CovarVals /\ weightCol \in WeightVals
    /\ busy \in BOOLEAN /\ crashed \in BOOLEAN /\ weightEdited \in BOOLEAN
    /\ nRuns \in 0..MaxRuns
    /\ prevRows.kind \in {Null, "errorbody", "table"}
    /\ plotUrl.kind \in {"", "errorbody", "png"}
    /\ orRows.kind \in {Null, "table"}

\* the page tells the user that run `last` failed: the component has no error
\* state, so the only place a message could appear is the alert of runRecode
ErrorShown == last.task = "recode" /\ alertMsg \notin {"none", "Preview rows: n", "Preview rows: undefined"}

\* C1: every failed run (a rejected request, an unparsable body, an error body
\* instead of the table) ends with the failure identified to the user, never
\* with the render crashed and never with nothing shown.
C1_EveryFailureIdentified ==
    /\ ~crashed
    /\ last.fail # "none" => ErrorShown

\* C2: when the /prevalence request of a run of runPrev fails, the
\* /plot/prevalence request of that run is still issued and prevRows holds no
\* value that is not a table; a failed run of one task leaves the results of
\* the other tasks as they were.
C2_FailureIsolated ==
    [][((\E r \in runs : r \notin runs') /\ last'.fail # "none") =>
          /\ (last'.task = "prev" /\ last'.fail \in {"rejected", "unparsable", "errorbody"})
                => (last'.plotIssued /\ prevRows'.kind # "errorbody")
          /\ last'.task # "prev" => UNCHANGED <<prevRows, plotUrl>>
          /\ last'.task # "logit" => UNCHANGED orRows]_vars

C7_PlotSameInputs ==
    \A r \in runs :
        Len(r.sent) = 2 =>
            /\ r.sent[1].url = "/prevalence"
            /\ r.sent[2].url = "/plot/prevalence"
            /\ r.sent[2].fd = r.sent[1].fd

\* the plot request of a run is out while the user has meanwhile selected
\* another file and changed both options
C7_Witness ==
    \E r \in runs : /\ Len(r.sent) = 2
                    /\ file # r.cl.file /\ by # r.cl.by /\ weightCol # r.cl.weightCol
                    /\ r.sent[2].fd["file"] = r.cl.file

\* C8: a run starts only when a file is selected and busy is false, and then
\* it is the only run in flight.
C8_OneRunAtATime ==
    [][nRuns' # nRuns =>
          (file # Null /\ ~busy /\ runs = {} /\ Cardinality(runs') = 1)]_vars

\* a second run is in flight, started after the first one reset busy
C8_Witness == nRuns = 2 /\ Cardinality(runs) = 1 /\ busy

\* C9: once the requests of a run have settled, busy is false again, on
\* every path.
C9_BusyReset == runs = {} => busy = FALSE

\* a run of runPrev ended by an exception in its second request
C9_Witness == runs = {} /\ last.task = "prev" /\ last.fail = "plot-rejected" /\ ~busy

\* C10: once no run is in flight, a displayed prevalence table and a
\* displayed plot come from the same run of runPrev, that is, from the same
\* file, by and weight_col.
C10_TableAndPlotSameRun ==
    (runs = {} /\ prevRows.kind = "table" /\ plotUrl.kind # "")
        => prevRows.fd = plotUrl.fd
====
